---- MODULE Spec2Model ----
(***************************************************************************)
(* A model of common/network/NetworkUtils.cpp of OLA:                      *)
(*   - DefaultRoute and ReadNetlinkSocket, over a byte-accurate image of   *)
(*     the 8192-byte message buffer (specification Spec);                  *)
(*   - the 16- and 32-bit endian conversions (specification SpecEndian);   *)
(*   - HostnameFromFQDN / DomainNameFromFQDN (specification SpecFqdn).     *)
(*                                                                         *)
(* 32-bit quantities are kept as the signed integer with the same bit      *)
(* pattern (-2^31 .. 2^31-1); unsigned comparisons and wrapping arithmetic *)
(* are written out on that representation.  Multi-byte fields of the       *)
(* netlink structures are host-endian on both the kernel's and the         *)
(* program's side; the image stores them least significant byte first.     *)
(***************************************************************************)
EXTENDS Integers, Sequences, FiniteSets, TLC

VARIABLES
    \* ---- DefaultRoute / ReadNetlinkSocket ----
    pc,                 \* position in DefaultRoute
    sd,                 \* the descriptor: "none", "failed" (socket returned < 0), "open", "closed"
    nSocket, nSend, nRecv, nClose,   \* calls of socket, send, recv, close so far
    sent,               \* what send returned: "none" (not called), "ok", "failed"
    mem,                \* what recv wrote into msg: the datagrams, back to back
    readlens,           \* the value of readlen of every recv so far
    msglen,             \* ReadNetlinkSocket: msglen (buf is msg + msglen)
    len,                \* DefaultRoute: len
    nlOff,              \* nl_msg, as an offset into msg
    rtLen,              \* rt_len
    attrOff,            \* rt_attr, as an offset into msg
    routeCount,
    foundDefaultRoute,
    defaultRouteIp,     \* -1: the in_addr from new; otherwise an offset into msg
    heapAddr,           \* the s_addr of the in_addr from new (<<>>: not yet written)
    scanned,            \* the message loop of DefaultRoute was entered
    ret,                \* "none" until DefaultRoute returns, then "true" / "false"
    out,                \* *default_route (<<>>: never written)
    nOutWrites,         \* assignments to *default_route
    \* ---- endian conversions ----
    epc, ekind, eop, bigEndian, ev, emid, eres,
    \* ---- FQDN splitting ----
    fpc, fqdn, fhost, fdomain

netVars == <<pc, sd, nSocket, nSend, sent, nRecv, nClose, mem, readlens, msglen, len,
             nlOff, rtLen, attrOff, routeCount, foundDefaultRoute, defaultRouteIp,
             heapAddr, scanned, ret, out, nOutWrites>>
endianVars == <<epc, ekind, eop, bigEndian, ev, emid, eres>>
fqdnVars == <<fpc, fqdn, fhost, fdomain>>
vars == <<netVars, endianVars, fqdnVars>>

(***************************************************************************)
(* Bounds of the model.                                                    *)
(***************************************************************************)
\* recv calls that may deliver any datagram; later ones deliver one that takes
\* all the room left
MaxRecv == 3
\* longest FQDN explored
MaxFqdnLen == 4

(***************************************************************************)
(* Sizes and protocol numbers the code uses.                               *)
(***************************************************************************)
BUFSIZE == 8192
SizeofNlmsghdr == 16
SizeofRtmsg == 12
SizeofRtattr == 4
NLMSG_ERROR == 2
NLMSG_DONE == 3
NLM_F_MULTI == 2
RTM_NEWROUTE == 24
RTM_GETROUTE == 26
ReqFlags == 769
AF_INET == 2
AF_INET6 == 10
RT_TABLE_MAIN == 254
RT_TABLE_LOCAL == 255
RTA_DST == 1
RTA_OIF == 4
RTA_GATEWAY == 5
\* nl_msg->nlmsg_seq = seq++ with seq == 0
ReqSeq == 0
\* getpid()
ReqPid == 4660

(***************************************************************************)
(* 32-bit arithmetic on the signed representation.                         *)
(***************************************************************************)
Lo16(a) == a % 65536
Hi16(a) == (a \div 65536) % 65536
Mk32(hi, lo) == IF hi >= 32768 THEN (hi - 65536) * 65536 + lo ELSE hi * 65536 + lo

Add32(a, b) ==
    LET lo == Lo16(a) + Lo16(b)
        hi == (Hi16(a) + Hi16(b) + (lo \div 65536)) % 65536
    IN  Mk32(hi, lo % 65536)

Sub32(a, b) ==
    LET lo == Lo16(a) - Lo16(b)
        hi == (Hi16(a) - Hi16(b) + (lo \div 65536)) % 65536
    IN  Mk32(hi, lo % 65536)

\* a <= b, both read as unsigned 32-bit values
ULe(a, b) == IF (a < 0) = (b < 0) THEN a <= b ELSE b < 0

\* NLMSG_ALIGN / RTA_ALIGN: (x + 3) & ~3 in unsigned arithmetic
Align4(x) == LET y == Add32(x, 3) IN y - (y % 4)

Min(a, b) == IF a <= b THEN a ELSE b

(***************************************************************************)
(* Bytes of a datagram.  A datagram is [bytes, pad]: the bytes written     *)
(* out, followed by pad zero bytes.                                        *)
(***************************************************************************)
U16(v) == <<v % 256, (v \div 256) % 256>>
U32(v) == <<v % 256, (v \div 256) % 256, (v \div 65536) % 256, (v \div 16777216) % 256>>
FromU16(b) == b[1] + 256 * b[2]
FromU32(b) == Mk32(b[3] + 256 * b[4], b[1] + 256 * b[2])

FragLen(f) == Len(f.bytes) + f.pad
FragByte(f, i) == IF i < Len(f.bytes) THEN f.bytes[i + 1] ELSE 0

\* what recv stores of datagram f when asked for n bytes
Trunc(f, n) ==
    IF n >= FragLen(f) THEN f
    ELSE IF n <= Len(f.bytes) THEN [bytes |-> SubSeq(f.bytes, 1, n), pad |-> 0]
    ELSE [bytes |-> f.bytes, pad |-> n - Len(f.bytes)]

(***************************************************************************)
(* The buffer msg.  Before the first recv it holds the request            *)
(* (lines 364-371); recv writes each datagram at msg + msglen.  A byte at  *)
(* or beyond msg + BUFSIZE is outside the array: reading it is undefined,  *)
(* and reads as `fill', whatever the stack holds there.                    *)
(***************************************************************************)
Hdr(l, type, flags, seq, pid) == U32(l) \o U16(type) \o U16(flags) \o U32(seq) \o U32(pid)

Request == Hdr(SizeofNlmsghdr + SizeofRtmsg, RTM_GETROUTE, ReqFlags, ReqSeq, ReqPid)

RECURSIVE MemByte(_, _, _)
MemByte(i, base, off) ==
    IF i > Len(mem) THEN
        IF off < Len(Request) THEN Request[off + 1] ELSE 0
    ELSE IF off < base + FragLen(mem[i]) THEN FragByte(mem[i], off - base)
    ELSE MemByte(i + 1, base + FragLen(mem[i]), off)

ByteAt(off, fill) == IF off >= BUFSIZE THEN fill ELSE MemByte(1, 0, off)

U8At(off, fill) == ByteAt(off, fill)
U16At(off, fill) == FromU16(<<ByteAt(off, fill), ByteAt(off + 1, fill)>>)
Bytes4At(off, fill) ==
    <<ByteAt(off, fill), ByteAt(off + 1, fill), ByteAt(off + 2, fill), ByteAt(off + 3, fill)>>
U32At(off, fill) == FromU32(Bytes4At(off, fill))

\* an offset past the array is kept, but no further than Far
Far == BUFSIZE + BUFSIZE
Advance(off, n) == IF n < 0 \/ off + n > Far THEN Far ELSE off + n

(***************************************************************************)
(* The netlink macros, at offsets of msg.                                  *)
(***************************************************************************)
NlmsgLen(off, fill) == U32At(off, fill)
NlmsgType(off, fill) == U16At(off + 4, fill)
NlmsgFlags(off, fill) == U16At(off + 6, fill)
NlmsgSeq(off, fill) == U32At(off + 8, fill)
NlmsgPid(off, fill) == U32At(off + 12, fill)

\* NLMSG_OK(nlh, (unsigned int) l)
NLMSG_OK(off, l, fill) ==
    /\ ULe(SizeofNlmsghdr, l)
    /\ ULe(SizeofNlmsghdr, NlmsgLen(off, fill))
    /\ ULe(NlmsgLen(off, fill), l)

\* NLMSG_DATA(nlh)
NLMSG_DATA(off) == off + SizeofNlmsghdr
RtmFamily(off, fill) == U8At(NLMSG_DATA(off), fill)
RtmTable(off, fill) == U8At(NLMSG_DATA(off) + 4, fill)
\* RTM_PAYLOAD(nlh), stored in the int rt_len
RTM_PAYLOAD(off, fill) == Sub32(NlmsgLen(off, fill), SizeofNlmsghdr + SizeofRtmsg)
\* RTM_RTA(rt_msg)
RTM_RTA(off) == NLMSG_DATA(off) + SizeofRtmsg

RtaLen(off, fill) == U16At(off, fill)
RtaType(off, fill) == U16At(off + 2, fill)
\* RTA_OK(rta, l) with an int l
RTA_OK(off, l, fill) ==
    /\ l >= SizeofRtattr
    /\ RtaLen(off, fill) >= SizeofRtattr
    /\ RtaLen(off, fill) <= l
\* RTA_DATA(rta)
RTA_DATA(off) == off + SizeofRtattr

(***************************************************************************)
(* The datagrams the kernel side may deliver.                              *)
(***************************************************************************)
Rtm(family, table) == <<family, 0, 0, 0, table, 0, 0, 0>> \o U32(0)
Rta(type, data) == U16(SizeofRtattr + Len(data)) \o U16(type) \o data
RouteMsg(flags, seq, pid, family, table, attrs) ==
    Hdr(SizeofNlmsghdr + SizeofRtmsg + Len(attrs), RTM_NEWROUTE, flags, seq, pid)
        \o Rtm(family, table) \o attrs
Dgram(b) == [bytes |-> b, pad |-> 0]

GwA == <<192, 168, 1, 1>>
GwB == <<10, 0, 0, 254>>
ZeroAddr == <<0, 0, 0, 0>>
Oif == Rta(RTA_OIF, U32(3))
OtherSeq == ReqSeq + 1
OtherPid == ReqPid + 1

\* multi-part, sequence number or pid not the request's: the read loop goes on
MoreDatagrams ==
    { Dgram(RouteMsg(NLM_F_MULTI, OtherSeq, ReqPid, AF_INET, RT_TABLE_MAIN, Oif)),
      Dgram(RouteMsg(NLM_F_MULTI, ReqSeq, OtherPid, AF_INET, RT_TABLE_MAIN,
                     Rta(RTA_GATEWAY, GwA) \o Rta(RTA_GATEWAY, GwB))),
      Dgram(RouteMsg(NLM_F_MULTI, OtherSeq, ReqPid, AF_INET6, RT_TABLE_MAIN,
                     Oif \o Rta(RTA_GATEWAY, GwB))),
      Dgram(RouteMsg(NLM_F_MULTI, ReqSeq, OtherPid, AF_INET, RT_TABLE_MAIN,
                     Rta(RTA_DST, ZeroAddr))),
      \* a header whose length is not a multiple of four, and one more byte
      Dgram(Hdr(SizeofNlmsghdr + 1, RTM_NEWROUTE, NLM_F_MULTI, OtherSeq, OtherPid) \o <<0>>),
      \* half the buffer: one long entry
      [bytes |-> Hdr(BUFSIZE \div 2, RTM_NEWROUTE, NLM_F_MULTI, OtherSeq, ReqPid)
                    \o Rtm(AF_INET, RT_TABLE_MAIN) \o Oif,
       pad |-> (BUFSIZE \div 2) - (SizeofNlmsghdr + SizeofRtmsg + Len(Oif))],
      \* the whole buffer
      [bytes |-> Hdr(BUFSIZE, RTM_NEWROUTE, NLM_F_MULTI, OtherSeq, OtherPid)
                    \o Rtm(AF_INET, RT_TABLE_MAIN) \o Rta(RTA_GATEWAY, GwA),
       pad |-> BUFSIZE - (SizeofNlmsghdr + SizeofRtmsg + SizeofRtattr + Len(GwA))] }

\* an end-of-dump datagram whose bytes from offset 3 on read as a route message
\* (length 768) of the main IPv4 table with a gateway attribute
CraftedDone ==
    Hdr(SizeofNlmsghdr, NLMSG_DONE, 0, OtherSeq, ReqPid) \o <<0, 0, 0>>
        \o Rtm(AF_INET, RT_TABLE_MAIN) \o Rta(RTA_GATEWAY, GwB)

LastDatagrams ==
    { Dgram(RouteMsg(0, ReqSeq, ReqPid, AF_INET, RT_TABLE_MAIN,
                     Oif \o Rta(RTA_GATEWAY, GwA))),
      Dgram(RouteMsg(NLM_F_MULTI, ReqSeq, ReqPid, AF_INET, RT_TABLE_MAIN,
                     Rta(RTA_GATEWAY, GwA) \o Oif)),
      Dgram(RouteMsg(0, OtherSeq, ReqPid, AF_INET, RT_TABLE_MAIN, Oif)),
      Dgram(RouteMsg(NLM_F_MULTI, ReqSeq, ReqPid, AF_INET, RT_TABLE_LOCAL,
                     Rta(RTA_GATEWAY, GwB) \o Oif)),
      \* two messages in one datagram
      Dgram(RouteMsg(0, ReqSeq, ReqPid, AF_INET6, RT_TABLE_MAIN, Rta(RTA_GATEWAY, GwB))
            \o RouteMsg(0, ReqSeq, ReqPid, AF_INET, RT_TABLE_MAIN, Rta(RTA_GATEWAY, GwA))),
      \* a header and nothing else
      Dgram(Hdr(SizeofNlmsghdr, RTM_NEWROUTE, 0, ReqSeq, ReqPid)),
      \* end of dump, as the kernel sends it
      Dgram(Hdr(SizeofNlmsghdr + 4, NLMSG_DONE, NLM_F_MULTI, OtherSeq, ReqPid) \o U32(0)),
      Dgram(CraftedDone),
      \* an error message
      [bytes |-> Hdr(SizeofNlmsghdr + 20, NLMSG_ERROR, 0, ReqSeq, ReqPid), pad |-> 20],
      \* fewer bytes than a header
      Dgram(SubSeq(Hdr(8, RTM_NEWROUTE, NLM_F_MULTI, OtherSeq, ReqPid), 1, 8)),
      \* a declared length smaller than a header
      Dgram(Hdr(8, RTM_NEWROUTE, NLM_F_MULTI, OtherSeq, ReqPid)),
      \* a declared length larger than what arrived
      Dgram(Hdr(64, RTM_NEWROUTE, NLM_F_MULTI, OtherSeq, ReqPid) \o Rtm(AF_INET, RT_TABLE_MAIN)) }

Datagrams == MoreDatagrams \cup LastDatagrams

(***************************************************************************)
(* DefaultRoute.                                                           *)
(***************************************************************************)
EndianIdle ==
    /\ epc = "off" /\ ekind = "u16" /\ eop = "net" /\ bigEndian = FALSE
    /\ ev = 0 /\ emid = 0 /\ eres = 0
FqdnIdle == fpc = "off" /\ fqdn = <<>> /\ fhost = <<>> /\ fdomain = <<>>

NetInit(start) ==
    /\ pc = start
    /\ sd = "none"
    /\ nSocket = 0 /\ nSend = 0 /\ nRecv = 0 /\ nClose = 0
    /\ sent = "none"
    /\ mem = <<>> /\ readlens = <<>>
    /\ msglen = 0 /\ len = 0
    /\ nlOff = 0 /\ rtLen = 0 /\ attrOff = 0
    /\ routeCount = 0 /\ foundDefaultRoute = FALSE
    /\ defaultRouteIp = -1 /\ heapAddr = <<>>
    /\ scanned = FALSE
    /\ ret = "none" /\ out = <<>> /\ nOutWrites = 0

Init == NetInit("socket") /\ EndianIdle /\ FqdnIdle

\* return false, with or without close(sd) before it
ReturnFalse(closing) ==
    /\ pc' = "done"
    /\ ret' = "false"
    /\ sd' = IF closing THEN "closed" ELSE sd
    /\ nClose' = IF closing THEN nClose + 1 ELSE nClose

\* lines 355-359
Socket ==
    /\ pc = "socket"
    /\ nSocket' = nSocket + 1
    /\ \E ok \in BOOLEAN :
          IF ok THEN /\ sd' = "open"
                     /\ pc' = "send"
                     /\ UNCHANGED <<ret, nClose>>
          ELSE /\ sd' = "failed"
               /\ pc' = "done"
               /\ ret' = "false"
               /\ nClose' = nClose
    /\ UNCHANGED <<nSend, sent, nRecv, mem, readlens, msglen, len, nlOff, rtLen, attrOff,
                   routeCount, foundDefaultRoute, defaultRouteIp, heapAddr, scanned,
                   out, nOutWrites>>
    /\ UNCHANGED <<endianVars, fqdnVars>>

\* lines 374-376: send failed
SendFailureNoClose == ReturnFalse(FALSE)
SendFailure == ReturnFalse(TRUE)

\* lines 361-377, and the entry of ReadNetlinkSocket (line 317)
Send ==
    /\ pc = "send"
    /\ nSend' = nSend + 1
    /\ \E ok \in BOOLEAN :
          IF ok THEN /\ pc' = "recv"
                     /\ sent' = "ok"
                     /\ UNCHANGED <<ret, sd, nClose>>
          ELSE /\ sent' = "failed"
               /\ SendFailure
    /\ msglen' = 0
    /\ UNCHANGED <<nSocket, nRecv, mem, readlens, len, nlOff, rtLen, attrOff,
                   routeCount, foundDefaultRoute, defaultRouteIp, heapAddr, scanned,
                   out, nOutWrites>>
    /\ UNCHANGED <<endianVars, fqdnVars>>

\* the bytes recv is asked for: bufsize - msglen
RecvSpaceWhole == BUFSIZE
RecvSpace == BUFSIZE - msglen

\* the datagrams the n-th recv may deliver
Arriving(n) == IF n < MaxRecv THEN Datagrams ELSE {d \in Datagrams : FragLen(d) = BUFSIZE}

\* line 320: recv fails, or stores a datagram cut to the bytes asked for
Recv ==
    /\ pc = "recv"
    /\ nRecv' = nRecv + 1
    /\ \/ /\ readlens' = Append(readlens, -1)
          /\ mem' = mem
       \/ \E d \in Arriving(nRecv) :
             LET rl == Min(FragLen(d), RecvSpace) IN
             /\ readlens' = Append(readlens, rl)
             /\ mem' = Append(mem, Trunc(d, rl))
    /\ pc' = "check"
    /\ UNCHANGED <<sd, nSocket, nSend, sent, nClose, msglen, len, nlOff, rtLen, attrOff,
                   routeCount, foundDefaultRoute, defaultRouteIp, heapAddr, scanned,
                   ret, out, nOutWrites>>
    /\ UNCHANGED <<endianVars, fqdnVars>>

Readlen == readlens[Len(readlens)]

\* lines 341-342: the condition of the do .. while
LoopAgainBoth(seq, pid) == seq # ReqSeq /\ pid # ReqPid
LoopAgain(seq, pid) == seq # ReqSeq \/ pid # ReqPid

\* (nl_hdr->nlmsg_flags & NLM_F_MULTI) != 0
HasMulti(flags) == (flags \div NLM_F_MULTI) % 2 = 1

\* variants of lines 321-342: without the test of line 331, and with the loop
\* condition turned into a test that rejects the datagram
ReadOutcomeNoErrorTest(rl) ==
    IF rl < 0 THEN "fail"
    ELSE IF ~NLMSG_OK(msglen, rl, 0) THEN "fail"
    ELSE IF NlmsgType(msglen, 0) = NLMSG_DONE THEN "done"
    ELSE IF ~HasMulti(NlmsgFlags(msglen, 0)) THEN "last"
    ELSE IF LoopAgain(NlmsgSeq(msglen, 0), NlmsgPid(msglen, 0)) THEN "more"
    ELSE "matched"
ReadOutcomeStrict(rl) ==
    IF rl < 0 THEN "fail"
    ELSE IF ~NLMSG_OK(msglen, rl, 0) THEN "fail"
    ELSE IF NlmsgType(msglen, 0) = NLMSG_ERROR THEN "fail"
    ELSE IF LoopAgain(NlmsgSeq(msglen, 0), NlmsgPid(msglen, 0)) THEN "fail"
    ELSE IF NlmsgType(msglen, 0) = NLMSG_DONE THEN "done"
    ELSE IF ~HasMulti(NlmsgFlags(msglen, 0)) THEN "last"
    ELSE "matched"

\* lines 321-342 for the datagram at msg + msglen:
\*   "fail" (return -1), "done" (break at 335), "last" (break at 340),
\*   "matched" (the loop condition is false), "more" (another recv)
ReadOutcome(rl) ==
    IF rl < 0 THEN "fail"
    ELSE IF ~NLMSG_OK(msglen, rl, 0) THEN "fail"
    ELSE IF NlmsgType(msglen, 0) = NLMSG_ERROR THEN "fail"
    ELSE IF NlmsgType(msglen, 0) = NLMSG_DONE THEN "done"
    ELSE IF ~HasMulti(NlmsgFlags(msglen, 0)) THEN "last"
    ELSE IF LoopAgain(NlmsgSeq(msglen, 0), NlmsgPid(msglen, 0)) THEN "more"
    ELSE "matched"

\* lines 337-338: the bytes counted for a datagram
CountedAlways(outcome, rl) == IF outcome = "fail" THEN 0 ELSE rl
Counted(outcome, rl) == IF outcome \in {"last", "matched", "more"} THEN rl ELSE 0

\* where ReadNetlinkSocket goes after a datagram: back to recv, or out
AfterOutcomeRetry(o) == IF o \in {"more", "fail"} THEN "recv" ELSE "readret"
AfterOutcome(o) == IF o = "more" THEN "recv" ELSE "readret"

\* lines 321-345, and the assignment to len at line 385
CheckFragment ==
    /\ pc = "check"
    /\ LET o == ReadOutcome(Readlen) IN
          /\ msglen' = msglen + Counted(o, Readlen)
          /\ pc' = AfterOutcome(o)
          /\ len' = IF pc' = "recv" THEN len ELSE IF o = "fail" THEN -1 ELSE msglen'
    /\ UNCHANGED <<sd, nSocket, nSend, sent, nRecv, nClose, mem, readlens, nlOff, rtLen,
                   attrOff, routeCount, foundDefaultRoute, defaultRouteIp, heapAddr,
                   scanned, ret, out, nOutWrites>>
    /\ UNCHANGED <<endianVars, fqdnVars>>

\* lines 441-449, and the initialisation of the message loop
CheckLen ==
    /\ pc = "readret"
    /\ IF len < 0
       THEN /\ ReturnFalse(TRUE)
            /\ UNCHANGED <<routeCount, foundDefaultRoute, defaultRouteIp, heapAddr,
                           nlOff, scanned>>
       ELSE /\ routeCount' = 0
            /\ foundDefaultRoute' = FALSE
            /\ defaultRouteIp' = -1
            /\ heapAddr' = <<>>
            /\ nlOff' = 0
            /\ scanned' = TRUE
            /\ pc' = "msgloop"
            /\ UNCHANGED <<ret, sd, nClose>>
    /\ UNCHANGED <<nSocket, nSend, sent, nRecv, mem, readlens, msglen, len, rtLen, attrOff,
                   out, nOutWrites>>
    /\ UNCHANGED <<endianVars, fqdnVars>>

\* the test of line 463-464
RouteMatches(off, fill) ==
    RtmFamily(off, fill) = AF_INET /\ RtmTable(off, fill) = RT_TABLE_MAIN

\* NLMSG_NEXT(nl_msg, len): the new len and the new nl_msg
NextLen(off, l, fill) == Sub32(l, Align4(NlmsgLen(off, fill)))
NextMsg(off, fill) == Advance(off, Align4(NlmsgLen(off, fill)))

\* the stack bytes a read outside msg may find
StackFills == {0, 255}
Fills(oob) == IF oob THEN StackFills ELSE {0}

\* the condition and the head of the message loop read outside msg
MsgOob ==
    /\ ULe(SizeofNlmsghdr, len)
    /\ \/ nlOff + 4 > BUFSIZE
       \/ /\ NLMSG_OK(nlOff, len, 0)
          /\ \/ NLMSG_DATA(nlOff) + 1 > BUFSIZE
             \/ /\ RtmFamily(nlOff, 0) = AF_INET
                /\ NLMSG_DATA(nlOff) + 5 > BUFSIZE

\* the condition and the body of the attribute loop read outside msg
AttrOob ==
    /\ rtLen >= SizeofRtattr
    /\ \/ attrOff + 2 > BUFSIZE
       \/ /\ RTA_OK(attrOff, rtLen, 0)
          /\ \/ attrOff + SizeofRtattr > BUFSIZE
             \/ /\ RtaType(attrOff, 0) = RTA_DST
                /\ RTA_DATA(attrOff) + 4 > BUFSIZE

\* line 518 reads outside msg
FinishOob == foundDefaultRoute /\ defaultRouteIp + 4 > BUFSIZE

\* lines 454-469: the loop condition, line 459, the test of the entry
MsgLoop ==
    /\ pc = "msgloop"
    /\ \E fill \in Fills(MsgOob) :
          IF NLMSG_OK(nlOff, len, fill)
          THEN /\ foundDefaultRoute' = FALSE
               /\ IF RouteMatches(nlOff, fill)
                  THEN /\ rtLen' = RTM_PAYLOAD(nlOff, fill)
                       /\ attrOff' = RTM_RTA(nlOff)
                       /\ pc' = "attrloop"
                       /\ UNCHANGED <<nlOff, len>>
                  ELSE /\ len' = NextLen(nlOff, len, fill)
                       /\ nlOff' = NextMsg(nlOff, fill)
                       /\ pc' = "msgloop"
                       /\ UNCHANGED <<rtLen, attrOff>>
          ELSE /\ pc' = "finish"
               /\ UNCHANGED <<foundDefaultRoute, rtLen, attrOff, nlOff, len>>
    /\ UNCHANGED <<sd, nSocket, nSend, sent, nRecv, nClose, mem, readlens, msglen,
                   routeCount, defaultRouteIp, heapAddr, scanned, ret, out, nOutWrites>>
    /\ UNCHANGED <<endianVars, fqdnVars>>

\* lines 475, 483-484: what one attribute does
CountAfter(type, n) == IF type = RTA_OIF THEN n + 1 ELSE n
FoundAfter(type, found) == IF type = RTA_GATEWAY THEN TRUE ELSE found
IpAfterFirstOnly(type, off, ip) == IF type = RTA_GATEWAY /\ ip = -1 THEN RTA_DATA(off) ELSE ip
IpAfter(type, off, ip) == IF type = RTA_GATEWAY THEN RTA_DATA(off) ELSE ip

\* lines 499-500: leave the message loop after this entry
BreakNever(found) == FALSE
BreakAfterEntry(found) == found

\* lines 467-500: one attribute, or the end of the entry
AttrLoop ==
    /\ pc = "attrloop"
    /\ \E fill \in Fills(AttrOob) :
          IF RTA_OK(attrOff, rtLen, fill)
          THEN LET t == RtaType(attrOff, fill) IN
               /\ routeCount' = CountAfter(t, routeCount)
               /\ foundDefaultRoute' = FoundAfter(t, foundDefaultRoute)
               /\ defaultRouteIp' = IpAfter(t, attrOff, defaultRouteIp)
               /\ rtLen' = Sub32(rtLen, Align4(RtaLen(attrOff, fill)))
               /\ attrOff' = Advance(attrOff, Align4(RtaLen(attrOff, fill)))
               /\ pc' = "attrloop"
               /\ UNCHANGED <<nlOff, len>>
          ELSE IF BreakAfterEntry(foundDefaultRoute)
          THEN /\ pc' = "finish"
               /\ UNCHANGED <<routeCount, foundDefaultRoute, defaultRouteIp, rtLen,
                              attrOff, nlOff, len>>
          ELSE /\ len' = NextLen(nlOff, len, 0)
               /\ nlOff' = NextMsg(nlOff, 0)
               /\ pc' = "msgloop"
               /\ UNCHANGED <<routeCount, foundDefaultRoute, defaultRouteIp, rtLen,
                              attrOff>>
    /\ UNCHANGED <<sd, nSocket, nSend, sent, nRecv, nClose, mem, readlens, msglen,
                   heapAddr, scanned, ret, out, nOutWrites>>
    /\ UNCHANGED <<endianVars, fqdnVars>>

\* lines 507-516: "fail", "zero" or "gateway"
Selection(found, count) ==
    IF found THEN "gateway" ELSE IF count > 0 THEN "zero" ELSE "fail"

\* line 518 is reached: no return at line 514
WritesOutputAlways(sel) == TRUE
WritesOutput(sel) == sel # "fail"

\* lines 503-522
Finish ==
    /\ pc = "finish"
    /\ sd' = "closed"
    /\ nClose' = nClose + 1
    /\ pc' = "done"
    /\ \E fill \in Fills(FinishOob) :
          LET sel == Selection(foundDefaultRoute, routeCount) IN
          /\ heapAddr' = IF sel = "zero" /\ defaultRouteIp = -1 THEN ZeroAddr ELSE heapAddr
          /\ ret' = IF sel = "fail" THEN "false" ELSE "true"
          /\ out' = IF ~WritesOutput(sel) THEN out
                    ELSE IF sel = "zero" THEN ZeroAddr
                    ELSE IF defaultRouteIp = -1 THEN heapAddr
                    ELSE Bytes4At(defaultRouteIp, fill)
          /\ nOutWrites' = IF WritesOutput(sel) THEN nOutWrites + 1 ELSE nOutWrites
    /\ UNCHANGED <<nSocket, nSend, sent, nRecv, mem, readlens, msglen, len, nlOff, rtLen,
                   attrOff, routeCount, foundDefaultRoute, defaultRouteIp, scanned>>
    /\ UNCHANGED <<endianVars, fqdnVars>>

\* a read outside msg faults instead: DefaultRoute never returns
Crash ==
    /\ \/ pc = "msgloop" /\ MsgOob
       \/ pc = "attrloop" /\ AttrOob
       \/ pc = "finish" /\ FinishOob
    /\ pc' = "crashed"
    /\ UNCHANGED <<sd, nSocket, nSend, sent, nRecv, nClose, mem, readlens, msglen, len,
                   nlOff, rtLen, attrOff, routeCount, foundDefaultRoute, defaultRouteIp,
                   heapAddr, scanned, ret, out, nOutWrites>>
    /\ UNCHANGED <<endianVars, fqdnVars>>

Next ==
    \/ Socket
    \/ Send
    \/ Recv
    \/ CheckFragment
    \/ CheckLen
    \/ MsgLoop
    \/ AttrLoop
    \/ Finish
    \/ Crash

Spec == Init /\ [][Next]_vars

\* the calls of socket, send and recv return, and the code runs on
SpecFair == Spec /\ WF_vars(Next)

(***************************************************************************)
(* The endian conversions.  A 16-bit value is an integer (0 .. 65535 for   *)
(* uint16_t, -32768 .. 32767 for int16_t); a 32-bit value is its four      *)
(* bytes, most significant first (the int32_t overloads pass through       *)
(* uint32_t and back, which keeps the bits).                               *)
(***************************************************************************)
ToU16(x) == x % 65536
ToI16(x) == LET u == x % 65536 IN IF u >= 32768 THEN u - 65536 ELSE u

\* a | b on the low n bits
RECURSIVE OrBits(_, _, _)
OrBits(a, b, n) ==
    IF n = 0 THEN 0
    ELSE (IF a % 2 = 1 \/ b % 2 = 1 THEN 1 ELSE 0) + 2 * OrBits(a \div 2, b \div 2, n - 1)

\* ((value & 0xff) << 8) | (value >> 8), computed in int, its low 16 bits;
\* >> on a negative int keeps the sign
SwapExpr16(value) == OrBits(ToU16((value % 256) * 256), ToU16(value \div 256), 16)

\* line 85
IsBigEndian == bigEndian

\* htons / ntohs of the C library, on a uint16_t
Htons(u) == IF IsBigEndian THEN u ELSE (u % 256) * 256 + (u \div 256)
\* htonl / ntohl of the C library
Htonl(v) == IF IsBigEndian THEN v ELSE <<v[4], v[3], v[2], v[1]>>

\* lines 180-185
ByteSwap(value) == <<value[4], value[3], value[2], value[1]>>

\* lines 134-151
HostToNetwork(kind, value) ==
    CASE kind = "u16" -> Htons(value)
      [] kind = "i16" -> ToI16(Htons(ToU16(value)))
      [] OTHER -> Htonl(value)

\* lines 99-121
NetworkToHost(kind, value) ==
    CASE kind = "u16" -> Htons(value)
      [] kind = "i16" -> ToI16(Htons(ToU16(value)))
      [] OTHER -> Htonl(value)

\* lines 164-200
HostToLittleEndian(kind, value) ==
    IF IsBigEndian
    THEN CASE kind = "u16" -> ToU16(SwapExpr16(value))
           [] kind = "i16" -> ToI16(SwapExpr16(value))
           [] OTHER -> ByteSwap(value)
    ELSE value

\* lines 213-242
LittleEndianToHost(kind, value) ==
    IF IsBigEndian
    THEN CASE kind = "u16" -> ToU16(SwapExpr16(value))
           [] kind = "i16" -> ToI16(SwapExpr16(value))
           [] OTHER -> ByteSwap(value)
    ELSE value

\* the values tried: every combination of these bytes
EndianBytes == {0, 1, 127, 128, 255}
EndianKinds == {"u16", "i16", "u32", "i32"}
EndianValues(kind) ==
    CASE kind = "u16" -> {hi * 256 + lo : hi \in EndianBytes, lo \in EndianBytes}
      [] kind = "i16" -> {ToI16(hi * 256 + lo) : hi \in EndianBytes, lo \in EndianBytes}
      [] OTHER -> {<<a, b, c, d>> : a \in EndianBytes, b \in EndianBytes,
                                      c \in EndianBytes, d \in EndianBytes}

NetIdle == NetInit("off")

InitEndian ==
    /\ NetIdle /\ FqdnIdle
    /\ epc = "in"
    /\ ekind \in EndianKinds
    /\ eop \in {"net", "le"}
    /\ bigEndian \in BOOLEAN
    /\ ev \in EndianValues(ekind)
    /\ emid = ev
    /\ eres = ev

\* HostToNetwork(v) or HostToLittleEndian(v)
FromHost ==
    /\ epc = "in"
    /\ emid' = IF eop = "net" THEN HostToNetwork(ekind, ev) ELSE HostToLittleEndian(ekind, ev)
    /\ epc' = "mid"
    /\ UNCHANGED <<ekind, eop, bigEndian, ev, eres>>
    /\ UNCHANGED <<netVars, fqdnVars>>

\* NetworkToHost or LittleEndianToHost of the converted value
ToHost ==
    /\ epc = "mid"
    /\ eres' = IF eop = "net" THEN NetworkToHost(ekind, emid) ELSE LittleEndianToHost(ekind, emid)
    /\ epc' = "out"
    /\ UNCHANGED <<ekind, eop, bigEndian, ev, emid>>
    /\ UNCHANGED <<netVars, fqdnVars>>

NextEndian == FromHost \/ ToHost

SpecEndian == InitEndian /\ [][NextEndian]_vars

(***************************************************************************)
(* HostnameFromFQDN and DomainNameFromFQDN.  A string is a sequence of     *)
(* characters.                                                             *)
(***************************************************************************)
\* string::npos
Npos == -1
Dot == "."

\* fqdn.find_first_of("."), as a 0-based position
FindLastOf(str) ==
    IF \E i \in 1..Len(str) : str[i] = Dot
    THEN (CHOOSE i \in 1..Len(str) : str[i] = Dot /\ \A j \in (i + 1)..Len(str) : str[j] # Dot) - 1
    ELSE Npos
FindFirstOf(str) ==
    IF \E i \in 1..Len(str) : str[i] = Dot
    THEN (CHOOSE i \in 1..Len(str) : str[i] = Dot /\ \A j \in 1..(i - 1) : str[j] # Dot) - 1
    ELSE Npos

\* str.substr(pos, n) and str.substr(pos)
Substr(str, pos, n) == SubSeq(str, pos + 1, Min(pos + n, Len(str)))
SubstrFrom(str, pos) == SubSeq(str, pos + 1, Len(str))

\* lines 245-250
HostnameFromFQDN(str) ==
    LET first_dot == FindFirstOf(str) IN
    IF first_dot = Npos THEN str ELSE Substr(str, 0, first_dot)

\* lines 253-259
DomainNameFromFQDN(str) ==
    LET first_dot == FindFirstOf(str) IN
    IF first_dot = Npos THEN <<>> ELSE SubstrFrom(str, first_dot + 1)

FqdnChars == {"a", "b", Dot}
FqdnStrings == UNION {[1..n -> FqdnChars] : n \in 0..MaxFqdnLen}

InitFqdn ==
    /\ NetIdle /\ EndianIdle
    /\ fpc = "in"
    /\ fqdn \in FqdnStrings
    /\ fhost = <<>>
    /\ fdomain = <<>>

CallHostnameFromFQDN ==
    /\ fpc = "in"
    /\ fhost' = HostnameFromFQDN(fqdn)
    /\ fpc' = "host"
    /\ UNCHANGED <<fqdn, fdomain>>
    /\ UNCHANGED <<netVars, endianVars>>

CallDomainNameFromFQDN ==
    /\ fpc = "host"
    /\ fdomain' = DomainNameFromFQDN(fqdn)
    /\ fpc' = "both"
    /\ UNCHANGED <<fqdn, fhost>>
    /\ UNCHANGED <<netVars, endianVars>>

NextFqdn == CallHostnameFromFQDN \/ CallDomainNameFromFQDN

SpecFqdn == InitFqdn /\ [][NextFqdn]_vars

(***************************************************************************)
(* What the properties speak of: the datagrams received, and the entries   *)
(* of the bytes the read loop accepted (the first len bytes of msg).       *)
(***************************************************************************)
Returned == pc = "done"

\* the offset of the i-th datagram stored in msg
RECURSIVE FragStart(_)
FragStart(i) == IF i = 1 THEN 0 ELSE FragStart(i - 1) + FragLen(mem[i - 1])

\* the i-th datagram has been through lines 321-342
Processed(i) == i < Len(readlens) \/ pc # "check"

FragValid(i) ==
    /\ FragLen(mem[i]) >= SizeofNlmsghdr
    /\ NlmsgLen(FragStart(i), 0) >= SizeofNlmsghdr
    /\ NlmsgLen(FragStart(i), 0) <= FragLen(mem[i])
FragIsError(i) == NlmsgType(FragStart(i), 0) = NLMSG_ERROR
FragIsDone(i) == NlmsgType(FragStart(i), 0) = NLMSG_DONE
FragMulti(i) == HasMulti(NlmsgFlags(FragStart(i), 0))
FragMatches(i) ==
    NlmsgSeq(FragStart(i), 0) = ReqSeq /\ NlmsgPid(FragStart(i), 0) = ReqPid
\* the bytes of the i-th datagram are part of the accumulated byte count
FragCounted(i) == FragStart(i) + FragLen(mem[i]) <= msglen

\* the last recv failed (it stored nothing)
LastRecvFailed == Len(readlens) > 0 /\ readlens[Len(readlens)] < 0

\* the entries of the accepted bytes: the offsets of the envelopes that lie,
\* one after the other, within the rem bytes from off on
RECURSIVE Entries(_, _)
Entries(off, rem) ==
    IF rem >= SizeofNlmsghdr /\ NLMSG_OK(off, rem, 0)
    THEN <<off>> \o Entries(off + Align4(NlmsgLen(off, 0)), rem - Align4(NlmsgLen(off, 0)))
    ELSE <<>>
AcceptedEntries == Entries(0, msglen)

\* the offsets of the attribute records of the entry at e
RECURSIVE Attrs(_, _)
Attrs(off, rem) ==
    IF RTA_OK(off, rem, 0)
    THEN <<off>> \o Attrs(off + Align4(RtaLen(off, 0)), Sub32(rem, Align4(RtaLen(off, 0))))
    ELSE <<>>
EntryAttrs(e) == Attrs(RTM_RTA(e), RTM_PAYLOAD(e, 0))

AttrsOfType(e, type) == SelectSeq(EntryAttrs(e), LAMBDA a : RtaType(a, 0) = type)
\* an entry of the main IPv4 table
MainEntry(e) == RtmFamily(e, 0) = AF_INET /\ RtmTable(e, 0) = RT_TABLE_MAIN
GatewayEntry(e) == MainEntry(e) /\ AttrsOfType(e, RTA_GATEWAY) # <<>>
OifEntry(e) == MainEntry(e) /\ AttrsOfType(e, RTA_OIF) # <<>>
GatewayEntries == SelectSeq(AcceptedEntries, GatewayEntry)
OifEntries == SelectSeq(AcceptedEntries, OifEntry)
LastOf(seq) == seq[Len(seq)]

(***************************************************************************)
(* C1: once DefaultRoute has returned, a socket that was created has been  *)
(* closed exactly once, and a socket that could not be created has never   *)
(* been closed; at no time has close been called twice or on a descriptor  *)
(* that is not open.                                                       *)
(***************************************************************************)
C1_ClosedExactlyOnce ==
    /\ nClose <= 1
    /\ sd \in {"none", "failed"} => nClose = 0
    /\ sd = "open" => nClose = 0
    /\ sd = "closed" => nClose = 1
    /\ Returned => sd \in {"failed", "closed"}

\* the socket was created, the read succeeded, no route was found, and it is closed
C1_Witness ==
    Returned /\ scanned /\ ret = "false" /\ sd = "closed" /\ nClose = 1

(***************************************************************************)
(* C2: when the accepted bytes hold an entry of the main IPv4 table with a *)
(* gateway attribute, DefaultRoute returns true and *default_route is the  *)
(* address of the last gateway attribute of the first such entry.          *)
(***************************************************************************)
C2_GatewayReturned ==
    Returned /\ scanned /\ GatewayEntries # <<>> =>
        /\ ret = "true"
        /\ out = Bytes4At(RTA_DATA(LastOf(AttrsOfType(GatewayEntries[1], RTA_GATEWAY))), 0)

\* returned from an entry with two gateway attributes: the second one's address
C2_Witness ==
    /\ Returned /\ scanned /\ GatewayEntries # <<>>
    /\ Len(AttrsOfType(GatewayEntries[1], RTA_GATEWAY)) = 2
    /\ ret = "true" /\ out = GwB

(***************************************************************************)
(* C3: when no entry of the accepted bytes is a main-table IPv4 entry with *)
(* a gateway attribute and at least one such entry carries an interface    *)
(* index attribute, DefaultRoute returns true with the address 0.0.0.0.    *)
(***************************************************************************)
C3_ZeroAddress ==
    Returned /\ scanned /\ GatewayEntries = <<>> /\ OifEntries # <<>> =>
        ret = "true" /\ out = ZeroAddr

(***************************************************************************)
(* C4: after a successful read DefaultRoute returns false exactly when no  *)
(* main-table IPv4 entry of the accepted bytes carries a gateway or an     *)
(* interface index attribute; when no entry at all is a main-table IPv4    *)
(* entry, routeCount is 0 and no default is found.                         *)
(***************************************************************************)
C4_NoRouteFound ==
    Returned /\ scanned =>
        /\ ret = "false" <=> (GatewayEntries = <<>> /\ OifEntries = <<>>)
        /\ SelectSeq(AcceptedEntries, MainEntry) = <<>> =>
               routeCount = 0 /\ ~foundDefaultRoute /\ ret = "false"

(***************************************************************************)
(* C5, as claimed: ReadNetlinkSocket returns a byte count only after an    *)
(* end-of-dump datagram, a datagram without the multi-part flag, or with   *)
(* the buffer full; a valid multi-part data datagram received while there  *)
(* is room is followed by another recv.                                    *)
(***************************************************************************)
LastFrag == Len(mem)
LastIsData ==
    /\ ~LastRecvFailed /\ Len(mem) > 0
    /\ FragValid(LastFrag) /\ ~FragIsError(LastFrag) /\ ~FragIsDone(LastFrag)
\* the offset the last recv was given
LastRecvOffset == IF LastRecvFailed THEN FragStart(Len(mem) + 1) ELSE FragStart(Len(mem))

C5_AsClaimed ==
    pc = "readret" =>
        /\ len >= 0 => FragIsDone(LastFrag) \/ ~FragMulti(LastFrag) \/ len = BUFSIZE
        /\ ~(LastIsData /\ FragMulti(LastFrag) /\ msglen < BUFSIZE)

(***************************************************************************)
(* C5, amended: ReadNetlinkSocket returns a byte count only after a valid  *)
(* datagram that is of end-of-dump type, or lacks the multi-part flag, or  *)
(* carries both the sequence number and the pid of the request; a valid    *)
(* multi-part data datagram whose sequence number or pid differs is always *)
(* followed by another recv, and no other datagram is; a recv made with    *)
(* the buffer full ends the loop with -1.                                  *)
(***************************************************************************)
C5_LoopEnds ==
    /\ pc = "readret" /\ len >= 0 =>
          /\ ~LastRecvFailed /\ Len(mem) > 0 /\ FragValid(LastFrag)
          /\ ~FragIsError(LastFrag)
          /\ FragIsDone(LastFrag) \/ ~FragMulti(LastFrag) \/ FragMatches(LastFrag)
    /\ pc = "readret" => ~(LastIsData /\ FragMulti(LastFrag) /\ ~FragMatches(LastFrag))
    /\ pc = "recv" /\ nRecv > 0 =>
          LastIsData /\ FragMulti(LastFrag) /\ ~FragMatches(LastFrag)
    /\ pc = "readret" /\ LastRecvOffset = BUFSIZE => len = -1

\* a multi-part data datagram with the request's sequence number and pid ends
\* the loop with room left
C5_Witness ==
    /\ pc = "readret" /\ len >= 0 /\ len < BUFSIZE
    /\ LastIsData /\ FragMulti(LastFrag) /\ FragMatches(LastFrag)

(***************************************************************************)
(* C6: a datagram that fails the envelope check (shorter than a header,    *)
(* declared length below a header or above the bytes received) or is of    *)
(* the error type is the last one received: ReadNetlinkSocket returns -1,  *)
(* and DefaultRoute closes the socket and returns false without entering   *)
(* the message loop.                                                       *)
(***************************************************************************)
FragBad(i) == ~FragValid(i) \/ FragIsError(i)

C6_BadFragmentAborts ==
    \A i \in 1..Len(mem) :
        Processed(i) /\ FragBad(i) =>
            /\ i = Len(readlens)
            /\ pc \in {"readret", "done"}
            /\ len = -1
            /\ ~scanned
            /\ Returned => ret = "false" /\ sd = "closed" /\ nClose = 1

\* the second datagram declares more bytes than the room left let through
C6_Witness ==
    /\ Returned /\ Len(mem) = 2 /\ FragLen(mem[2]) >= SizeofNlmsghdr
    /\ NlmsgLen(FragStart(2), 0) > FragLen(mem[2])
    /\ FragStart(2) + NlmsgLen(FragStart(2), 0) > BUFSIZE
    /\ ret = "false" /\ sd = "closed"

(***************************************************************************)
(* C8: socket and send are called at most once; after socket fails nothing *)
(* is sent or received; after send fails nothing is received; a recv that  *)
(* fails or delivers an invalid or error datagram is the last recv, and    *)
(* the call returns false.                                                 *)
(***************************************************************************)
RecvBad(i) == readlens[i] < 0 \/ (i <= Len(mem) /\ FragBad(i))

C8_NoRetry ==
    /\ nSocket <= 1 /\ nSend <= 1
    /\ sd = "failed" => nSend = 0 /\ nRecv = 0 /\ Returned /\ ret = "false"
    /\ sent = "failed" => nRecv = 0 /\ Returned /\ ret = "false"
    /\ \A i \in 1..Len(readlens) :
          Processed(i) /\ RecvBad(i) =>
              /\ i = Len(readlens)
              /\ nRecv = i
              /\ pc \in {"readret", "done"}
              /\ Returned => ret = "false"

\* the second recv failed and the call returned false
C8_Witness ==
    Returned /\ Len(readlens) = 2 /\ LastRecvFailed /\ nRecv = 2 /\ ret = "false"

(***************************************************************************)
(* C10, as claimed: a valid datagram, not of the error type, whose         *)
(* sequence number or pid is not the request's is not treated as an error, *)
(* its bytes are counted, and if it is multi-part and not end-of-dump      *)
(* another recv follows.                                                   *)
(***************************************************************************)
TreatedAsError(i) ==
    i = Len(readlens) /\ pc \in {"readret", "done"} /\ ~scanned /\ len = -1
FollowedByRecv(i) == i < Len(readlens) \/ pc = "recv"

C10_AsClaimed ==
    \A i \in 1..Len(mem) :
        Processed(i) /\ FragValid(i) /\ ~FragIsError(i) /\ ~FragMatches(i) =>
            /\ ~TreatedAsError(i)
            /\ FragCounted(i)
            /\ FragMulti(i) /\ ~FragIsDone(i) => FollowedByRecv(i)

(***************************************************************************)
(* C10, amended: such a datagram is not treated as an error; unless it is  *)
(* of end-of-dump type its bytes are counted, and if it is also multi-part *)
(* another recv follows.  An end-of-dump datagram is stored but not        *)
(* counted.                                                                *)
(***************************************************************************)
C10_MismatchTolerated ==
    \A i \in 1..Len(mem) :
        Processed(i) /\ FragValid(i) /\ ~FragIsError(i) /\ ~FragMatches(i) =>
            /\ ~TreatedAsError(i)
            /\ ~FragIsDone(i) => FragCounted(i)
            /\ FragIsDone(i) => ~FragCounted(i)
            /\ FragMulti(i) /\ ~FragIsDone(i) => FollowedByRecv(i)

\* a counted multi-part datagram with another pid, and a recv after it
C10_Witness ==
    /\ Len(readlens) >= 2 /\ Len(mem) >= 1
    /\ FragValid(1) /\ ~FragIsError(1) /\ ~FragIsDone(1) /\ FragMulti(1)
    /\ NlmsgPid(FragStart(1), 0) # ReqPid
    /\ FragCounted(1)

(***************************************************************************)
(* C7: for every 16- and 32-bit value, signed or unsigned, on a big- and   *)
(* on a little-endian host, NetworkToHost(HostToNetwork(v)) = v and        *)
(* LittleEndianToHost(HostToLittleEndian(v)) = v.                          *)
(***************************************************************************)
C7_RoundTrip == epc = "out" => eres = ev

(***************************************************************************)
(* C9: for a string with a dot, HostnameFromFQDN is the part before the    *)
(* first dot (so it holds no dot) and DomainNameFromFQDN all that follows  *)
(* that dot; for a string without a dot, the hostname is the string and    *)
(* the domain name is empty.                                               *)
(***************************************************************************)
HasDot(str) == \E i \in 1..Len(str) : str[i] = Dot

C9_SplitAtFirstDot ==
    fpc = "both" =>
        IF HasDot(fqdn)
        THEN fhost \o <<Dot>> \o fdomain = fqdn /\ ~HasDot(fhost)
        ELSE fhost = fqdn /\ fdomain = <<>>

\* a name with two dots was split at the first
C9_Witness ==
    /\ fpc = "both"
    /\ Cardinality({i \in 1..Len(fqdn) : fqdn[i] = Dot}) = 2
    /\ fhost = <<"a">> /\ HasDot(fdomain)

(***************************************************************************)
(* C11: the message loop is left at an entry only when that entry gave a   *)
(* gateway attribute, and always then; otherwise it goes on to the next    *)
(* message and ends only when no message is left.  The found flag is false *)
(* whenever a message is taken up.  When the accepted bytes hold a         *)
(* main-table IPv4 entry with a gateway attribute the scan ends at the     *)
(* first one: the address returned lies in that entry, routeCount counts   *)
(* the interface index attributes up to that entry only, and nothing       *)
(* changes them afterwards.                                                *)
(***************************************************************************)
ScanOver == scanned /\ pc \in {"finish", "done"}

RECURSIVE OifCount(_)
OifCount(es) ==
    IF es = <<>> THEN 0
    ELSE (IF MainEntry(es[1]) THEN Len(AttrsOfType(es[1], RTA_OIF)) ELSE 0) + OifCount(Tail(es))
EntriesUpTo(e) == SelectSeq(AcceptedEntries, LAMBDA x : x <= e)
EntriesAfter(e) == SelectSeq(AcceptedEntries, LAMBDA x : x > e)

C11_StopsAtFirstGateway ==
    /\ [](pc = "msgloop" => ~foundDefaultRoute)
    /\ [](ScanOver /\ GatewayEntries # <<>> =>
              /\ foundDefaultRoute
              /\ nlOff = GatewayEntries[1]
              /\ defaultRouteIp > nlOff
              /\ defaultRouteIp + 4 <= nlOff + NlmsgLen(nlOff, 0)
              /\ routeCount = OifCount(EntriesUpTo(GatewayEntries[1]))
              /\ Returned => ret = "true" /\ out = Bytes4At(defaultRouteIp, 0))
    /\ [][pc = "attrloop" /\ pc' = "finish" => foundDefaultRoute]_vars
    /\ [][pc = "attrloop" /\ pc' = "msgloop" => ~foundDefaultRoute]_vars
    /\ [][pc = "msgloop" /\ pc' = "finish" =>
              \E fill \in Fills(MsgOob) : ~NLMSG_OK(nlOff, len, fill)]_vars
    /\ [][ScanOver => UNCHANGED <<routeCount, foundDefaultRoute, defaultRouteIp, nlOff>>]_vars

\* returned from the first gateway entry, with an entry after it whose interface
\* index attribute was not counted
C11_Witness ==
    /\ Returned /\ scanned /\ ret = "true" /\ GatewayEntries # <<>>
    /\ OifCount(EntriesAfter(GatewayEntries[1])) > 0
    /\ routeCount = 0

(***************************************************************************)
(* C12: a destination attribute changes neither routeCount nor the found   *)
(* flag nor the address; when the accepted bytes hold main-table IPv4      *)
(* entries and all their attributes are destination attributes, one of     *)
(* them with the address 0.0.0.0, no default is found, routeCount is 0 and *)
(* DefaultRoute returns false.                                             *)
(***************************************************************************)
MainEntries == SelectSeq(AcceptedEntries, MainEntry)
OnlyDst(e) == \A i \in 1..Len(EntryAttrs(e)) : RtaType(EntryAttrs(e)[i], 0) = RTA_DST
DstZero(e) ==
    \E i \in 1..Len(EntryAttrs(e)) :
        /\ RtaType(EntryAttrs(e)[i], 0) = RTA_DST
        /\ Bytes4At(RTA_DATA(EntryAttrs(e)[i]), 0) = ZeroAddr
OnlyDestinations ==
    /\ \E i \in 1..Len(MainEntries) : DstZero(MainEntries[i])
    /\ \A i \in 1..Len(MainEntries) : OnlyDst(MainEntries[i])
AtDstAttr ==
    /\ pc = "attrloop" /\ attrOff + SizeofRtattr <= BUFSIZE
    /\ RTA_OK(attrOff, rtLen, 0) /\ RtaType(attrOff, 0) = RTA_DST

C12_DestinationIgnored ==
    /\ [][AtDstAttr => UNCHANGED <<routeCount, foundDefaultRoute, defaultRouteIp>>]_vars
    /\ [](Returned /\ scanned /\ OnlyDestinations =>
              ret = "false" /\ routeCount = 0 /\ ~foundDefaultRoute)

(***************************************************************************)
(* C13: the attribute loop runs only for entries of the main IPv4 table,   *)
(* and what DefaultRoute returns is determined by those entries alone:     *)
(* the return value and the address are what the main-table IPv4 entries   *)
(* of the accepted bytes, taken by themselves, give.                       *)
(***************************************************************************)
MainGateways == SelectSeq(MainEntries, LAMBDA e : AttrsOfType(e, RTA_GATEWAY) # <<>>)
FromMainEntries ==
    IF MainGateways # <<>>
    THEN [ret |-> "true",
          out |-> Bytes4At(RTA_DATA(LastOf(AttrsOfType(MainGateways[1], RTA_GATEWAY))), 0)]
    ELSE IF OifCount(MainEntries) > 0 THEN [ret |-> "true", out |-> ZeroAddr]
    ELSE [ret |-> "false", out |-> <<>>]

C13_OtherEntriesSkipped ==
    /\ pc = "attrloop" => RouteMatches(nlOff, 0)
    /\ Returned /\ scanned => [ret |-> ret, out |-> out] = FromMainEntries

(***************************************************************************)
(* C14: when ReadNetlinkSocket returns without error, the value returned   *)
(* is msglen, the sum of the lengths received of all datagrams but a       *)
(* closing end-of-dump datagram, which is stored at the offset reached and *)
(* not counted; after an end-of-dump datagram alone the count is 0, the    *)
(* message loop finds nothing and DefaultRoute returns false.              *)
(***************************************************************************)
ReadOk == (pc = "readret" /\ len >= 0) \/ scanned

RECURSIVE SumLens(_)
SumLens(n) == IF n = 0 THEN 0 ELSE readlens[n] + SumLens(n - 1)

C14_ByteCount ==
    /\ pc = "readret" /\ len >= 0 => len = msglen
    /\ ReadOk =>
          /\ Len(mem) = Len(readlens)
          /\ IF FragIsDone(LastFrag)
             THEN msglen = SumLens(Len(readlens) - 1) /\ FragStart(LastFrag) = msglen
             ELSE msglen = SumLens(Len(readlens))
    /\ ReadOk /\ Len(readlens) = 1 /\ FragIsDone(1) =>
          /\ msglen = 0 /\ len = 0
          /\ pc \in {"readret", "msgloop", "finish", "done"}
          /\ routeCount = 0 /\ ~foundDefaultRoute
          /\ Returned => ret = "false"

\* two datagrams counted, then an end-of-dump datagram that is not
C14_Witness ==
    /\ Returned /\ scanned /\ Len(readlens) = 3 /\ FragIsDone(3)
    /\ readlens[3] > 0 /\ msglen = readlens[1] + readlens[2]

(***************************************************************************)
(* C15: msglen is always between 0 and BUFSIZE; every recv is made at      *)
(* offset msglen and asked for BUFSIZE - msglen bytes, so what it stores   *)
(* ends within msg.                                                        *)
(***************************************************************************)
C15_RecvWithinBuffer ==
    /\ 0 <= msglen /\ msglen <= BUFSIZE
    /\ pc = "recv" => FragStart(Len(mem) + 1) = msglen
    /\ \A i \in 1..Len(mem) : FragStart(i) + FragLen(mem[i]) <= BUFSIZE
    /\ pc = "check" /\ Readlen >= 0 =>
          /\ FragStart(LastFrag) = msglen
          /\ Readlen = FragLen(mem[LastFrag])
          /\ Readlen <= BUFSIZE - msglen

\* a datagram longer than the room left was cut to end at the end of msg
C15_Witness ==
    /\ pc = "check" /\ Len(mem) = 3 /\ msglen > 0 /\ msglen < BUFSIZE
    /\ Readlen = BUFSIZE - msglen
    /\ NlmsgLen(msglen, 0) > Readlen

(***************************************************************************)
(* C16: DefaultRoute returns in the end.  Every datagram after which the   *)
(* read loop goes on adds at least a header to msglen, so there are at     *)
(* most BUFSIZE / sizeof(nlmsghdr) + 1 calls of recv; every step of the    *)
(* message loop leaves a smaller, non-negative len, and every step of the  *)
(* attribute loop a smaller rt_len.                                        *)
(***************************************************************************)
InScan == pc \in {"msgloop", "attrloop"}

C16_Terminates ==
    /\ <>Returned
    /\ [](pc = "recv" => msglen >= nRecv * SizeofNlmsghdr)
    /\ [](nRecv <= (BUFSIZE \div SizeofNlmsghdr) + 1)
    /\ [][InScan /\ len' # len => (0 <= len' /\ len' < len)]_vars
    /\ [][pc = "attrloop" /\ pc' = "attrloop" => (rtLen' < rtLen)]_vars

(***************************************************************************)
(* C17: *default_route is assigned only when DefaultRoute returns true,    *)
(* and then exactly once; whenever it returns false (socket, send or recv  *)
(* failed, a bad datagram, no route found) it has not been assigned.       *)
(***************************************************************************)
C17_OutputFrame ==
    /\ nOutWrites <= 1
    /\ ~Returned => nOutWrites = 0 /\ out = <<>>
    /\ Returned /\ ret = "false" => nOutWrites = 0 /\ out = <<>>
    /\ Returned /\ ret = "true" => nOutWrites = 1 /\ Len(out) = 4
    /\ Returned => ret \in {"true", "false"}

\* no route found after a scan that counted nothing: nothing assigned
C17_Witness ==
    /\ Returned /\ scanned /\ Len(AcceptedEntries) > 0
    /\ ret = "false" /\ nOutWrites = 0 /\ out = <<>>

(***************************************************************************)
(* C18: every envelope the message loop accepts lies within the bytes that *)
(* remain of the accumulated count (len is not negative, and the envelope  *)
(* ends at or before msglen); the family and table bytes read for it lie   *)
(* inside its declared length; every attribute record accepted lies inside *)
(* the envelope it is read for; no read is outside msg.                    *)
(***************************************************************************)
EnvelopeEnd(e) == e + NlmsgLen(e, 0)
EnvelopeWithinCount(e) == 0 <= len /\ len <= msglen /\ e + len = msglen /\ EnvelopeEnd(e) <= msglen
FamilyInside(e) == NLMSG_DATA(e) + 1 <= EnvelopeEnd(e)
TableInside(e) == RtmFamily(e, 0) = AF_INET => NLMSG_DATA(e) + 5 <= EnvelopeEnd(e)
AttrInside(a, e) == RTM_RTA(e) <= a /\ a + RtaLen(a, 0) <= EnvelopeEnd(e)

C18_ParserBounds ==
    /\ pc = "msgloop" => ~MsgOob
    /\ pc = "msgloop" /\ ~MsgOob /\ NLMSG_OK(nlOff, len, 0) =>
          EnvelopeWithinCount(nlOff) /\ FamilyInside(nlOff) /\ TableInside(nlOff)
    /\ pc = "attrloop" => ~AttrOob /\ EnvelopeWithinCount(nlOff)
    /\ pc = "attrloop" /\ ~AttrOob /\ RTA_OK(attrOff, rtLen, 0) => AttrInside(attrOff, nlOff)

====
